---- MODULE Spec2Model ----
(***************************************************************************)
(* DeLogger backend (main.go): the /api/parse handler, its line            *)
(* classification loop and the audit record it persists through           *)
(* recordLog.  Text is modelled as sequences of one-character strings.     *)
(***************************************************************************)
EXTENDS Integers, Sequences, FiniteSets, TLC

(***************************************************************************)
(* Characters                                                              *)
(***************************************************************************)
\* U+000B, vertical tab: white space for strings.TrimSpace, not for \s.
VT == "VT"

\* The characters request bodies are built from.
Chars == {"[", "]", " ", "a", "\n", "\r", VT}

\* IsSpace that does not count the carriage return as white space.
IsSpace_NoCR(c) == c \in {" ", "\t", "\n", VT, "\f"}

\* unicode.IsSpace, as used by strings.TrimSpace (restricted to Chars).
IsSpace(c) == c \in {" ", "\t", "\n", VT, "\f", "\r"}

\* The class \s of Go's regexp syntax: [\t\n\f\r ].
IsReSpace(c) == c \in {" ", "\t", "\n", "\f", "\r"}

\* The class . of Go's regexp syntax without the s flag: any character but \n.
IsReDot(c) == c # "\n"

Min(S) == CHOOSE x \in S : \A y \in S : x <= y
Max(S) == CHOOSE x \in S : \A y \in S : x >= y

(***************************************************************************)
(* strings.Split(logText, "\n") and strings.TrimSpace(line)                *)
(***************************************************************************)
\* Positions of the separator in s.
SepIdx(s, sep) == {i \in 1..Len(s) : s[i] = sep}

RECURSIVE SplitFrom(_, _, _)
\* The segments of s from position p on, cut at every occurrence of sep.
SplitFrom(s, sep, p) ==
  LET later == {i \in SepIdx(s, sep) : i >= p}
  IN  IF later = {}
        THEN << SubSeq(s, p, Len(s)) >>
        ELSE LET q == Min(later)
             IN  << SubSeq(s, p, q - 1) >> \o SplitFrom(s, sep, q + 1)

\* strings.Split: n separators give n+1 segments; the empty text gives
\* one empty segment.
Split(s, sep) == SplitFrom(s, sep, 1)

\* strings.TrimSpace: drop leading and trailing white space.
TrimSpace(s) ==
  LET vis == {i \in 1..Len(s) : ~IsSpace(s[i])}
  IN  IF vis = {} THEN << >> ELSE SubSeq(s, Min(vis), Max(vis))

(***************************************************************************)
(* logRegex under Go's leftmost-first (backtracking priority) semantics.   *)
(***************************************************************************)
\* The pattern is  ^\[(.*?)\]\s+\[(.*?)\]\s+(.*)$ .  Each operator returns
\* the choice the matcher commits to, or 0 when no choice leads to a full
\* match.

\* (.*)$ from position p: every remaining character is matched by `.`.
MatchRest(s, p) == \A i \in p..Len(s) : IsReDot(s[i])

\* End (exclusive) of the maximal run of \s characters starting at p.
SpaceRunEnd(s, p) ==
  LET stop == {i \in p..Len(s) : ~IsReSpace(s[i])}
  IN  IF stop = {} THEN Len(s) + 1 ELSE Min(stop)

\* Second \s+ followed by (.*)$, from p: greedy, so the longest run of \s
\* after which the rest still matches.  Result: start of capture 3, or 0.
MatchSpaceRest(s, p) ==
  LET ok == {q \in (p + 1)..SpaceRunEnd(s, p) : MatchRest(s, q)}
  IN  IF ok = {} THEN 0 ELSE Max(ok)

\* MatchLevel with a greedy second group, (.*) for (.*?): the farthest `]`.
MatchLevel_Greedy(s, p) ==
  LET ok == {k \in p..Len(s) :
               /\ s[k] = "]"
               /\ \A i \in p..(k - 1) : IsReDot(s[i])
               /\ MatchSpaceRest(s, k + 1) # 0}
  IN  IF ok = {} THEN 0 ELSE Max(ok)

\* (.*?)\] from p followed by the second \s+ and the rest: non-greedy, so
\* the nearest `]` after which the rest still matches.  Result: the
\* position of that `]`, or 0.
MatchLevel(s, p) ==
  LET ok == {k \in p..Len(s) :
               /\ s[k] = "]"
               /\ \A i \in p..(k - 1) : IsReDot(s[i])
               /\ MatchSpaceRest(s, k + 1) # 0}
  IN  IF ok = {} THEN 0 ELSE Min(ok)

\* MatchSpaceLevel with \s* for the first \s+: the gap may be empty.
MatchSpaceLevel_Star(s, p) ==
  LET ok == {q \in p..SpaceRunEnd(s, p) :
               /\ q <= Len(s)
               /\ s[q] = "["
               /\ MatchLevel(s, q + 1) # 0}
  IN  IF ok = {} THEN 0 ELSE Max(ok)

\* First \s+ followed by \[ and the rest, from p: greedy.  Result: the
\* position of that `[`, or 0.
MatchSpaceLevel(s, p) ==
  LET ok == {q \in (p + 1)..SpaceRunEnd(s, p) :
               /\ q <= Len(s)
               /\ s[q] = "["
               /\ MatchLevel(s, q + 1) # 0}
  IN  IF ok = {} THEN 0 ELSE Max(ok)

\* MatchTimestamp with a greedy first group, (.*) for (.*?): the farthest
\* `]` after which the rest still matches.
MatchTimestamp_Greedy(s) ==
  IF Len(s) = 0 \/ s[1] # "[" THEN 0
  ELSE LET ok == {k \in 2..Len(s) :
                    /\ s[k] = "]"
                    /\ \A i \in 2..(k - 1) : IsReDot(s[i])
                    /\ MatchSpaceLevel(s, k + 1) # 0}
       IN  IF ok = {} THEN 0 ELSE Max(ok)

\* ^\[(.*?)\] followed by the rest: non-greedy.  Result: the position of
\* the `]` that closes capture 1, or 0.
MatchTimestamp(s) ==
  IF Len(s) = 0 \/ s[1] # "[" THEN 0
  ELSE LET ok == {k \in 2..Len(s) :
                    /\ s[k] = "]"
                    /\ \A i \in 2..(k - 1) : IsReDot(s[i])
                    /\ MatchSpaceLevel(s, k + 1) # 0}
       IN  IF ok = {} THEN 0 ELSE Min(ok)

\* logRegex.FindStringSubmatch(line): << whole match, capture 1, capture 2,
\* capture 3 >>, or the empty sequence (nil) when the line does not match.
FindStringSubmatch(s) ==
  LET k1 == MatchTimestamp(s)
  IN  IF k1 = 0 THEN << >>
      ELSE LET o2 == MatchSpaceLevel(s, k1 + 1)
               k2 == MatchLevel(s, o2 + 1)
               c3 == MatchSpaceRest(s, k2 + 1)
           IN  << s,
                  SubSeq(s, 2, k1 - 1),
                  SubSeq(s, o2 + 1, k2 - 1),
                  SubSeq(s, c3, Len(s)) >>

(***************************************************************************)
(* LogEntry and the classification loop of parseHandler                    *)
(***************************************************************************)
\* LogEntry{...}: fields left out of the literal are the empty string.
LogEntry(ts, lvl, msg, raw) ==
  [Timestamp |-> ts, Level |-> lvl, Message |-> msg, Raw |-> raw]

\* ClassifyLine that also stores the line in Raw when the pattern matches.
ClassifyLine_KeepsRaw(line) ==
  LET match == FindStringSubmatch(line)
  IN  IF Len(match) = 4
        THEN LogEntry(match[2], match[3], match[4], line)
        ELSE LogEntry(<< >>, << >>, << >>, line)

\* The body of the loop for one trimmed, non-empty line.
ClassifyLine(line) ==
  LET match == FindStringSubmatch(line)
  IN  IF Len(match) = 4
        THEN LogEntry(match[2], match[3], match[4], << >>)
        ELSE LogEntry(<< >>, << >>, << >>, line)

RECURSIVE ParseLines_NoSkip(_, _)
\* ParseLines without the `continue` for lines that are empty after
\* trimming.
ParseLines_NoSkip(lines, i) ==
  IF i > Len(lines) THEN << >>
  ELSE << ClassifyLine(TrimSpace(lines[i])) >> \o ParseLines_NoSkip(lines, i + 1)

RECURSIVE ParseLines(_, _)
\* for _, line := range lines, from index i on; the empty result is the
\* nil slice parsedData starts as.
ParseLines(lines, i) ==
  IF i > Len(lines) THEN << >>
  ELSE LET line == TrimSpace(lines[i])
       IN  IF line = << >>
             THEN ParseLines(lines, i + 1)
             ELSE << ClassifyLine(line) >> \o ParseLines(lines, i + 1)

\* The parsing logic of parseHandler: split, trim, skip blanks, classify.
ParseLog(logText) == ParseLines(Split(logText, "\n"), 1)

(***************************************************************************)
(* json.Marshal(parsedData)                                                *)
(***************************************************************************)
\* The escape encoding/json writes for one character of a string.
EscapeChar(c) ==
  CASE c = "\n" -> << "\\", "n" >>
    [] c = "\r" -> << "\\", "r" >>
    [] c = "\t" -> << "\\", "t" >>
    [] c = "\"" -> << "\\", "\"" >>
    [] c = "\\" -> << "\\", "\\" >>
    [] c = VT   -> << "\\", "u", "0", "0", "0", "b" >>
    [] OTHER    -> << c >>

RECURSIVE EscapeFrom(_, _)
EscapeFrom(s, i) ==
  IF i > Len(s) THEN << >> ELSE EscapeChar(s[i]) \o EscapeFrom(s, i + 1)

\* A Go string as a JSON string literal.
EncodeString(s) == << "\"" >> \o EscapeFrom(s, 1) \o << "\"" >>

KeyTimestamp == << "\"", "t", "i", "m", "e", "s", "t", "a", "m", "p", "\"", ":" >>
KeyLevel == << "\"", "l", "e", "v", "e", "l", "\"", ":" >>
KeyMessage == << "\"", "m", "e", "s", "s", "a", "g", "e", "\"", ":" >>
KeyRaw == << "\"", "r", "a", "w", "\"", ":" >>

\* One struct field with the omitempty option; sep is "," unless the field
\* is the first one written.
EncodeField(key, val, first) ==
  IF val = << >> THEN << >>
  ELSE (IF first THEN << >> ELSE << "," >>) \o key \o EncodeString(val)

\* One LogEntry as a JSON object, fields in declaration order.
EncodeEntry(e) ==
  LET f1 == EncodeField(KeyTimestamp, e.Timestamp, TRUE)
      f2 == EncodeField(KeyLevel, e.Level, f1 = << >>)
      f3 == EncodeField(KeyMessage, e.Message, f1 \o f2 = << >>)
      f4 == EncodeField(KeyRaw, e.Raw, f1 \o f2 \o f3 = << >>)
  IN  << "{" >> \o f1 \o f2 \o f3 \o f4 \o << "}" >>

RECURSIVE EncodeEntries(_, _)
EncodeEntries(es, i) ==
  IF i > Len(es) THEN << >>
  ELSE (IF i = 1 THEN << >> ELSE << "," >>)
         \o EncodeEntry(es[i]) \o EncodeEntries(es, i + 1)

\* The bytes json.Marshal returns for parsedData.  parsedData is declared
\* with var and only ever appended to, so a slice without entries is the
\* nil slice, which encoding/json writes as null.
Marshal(es) ==
  IF es = << >> THEN << "n", "u", "l", "l" >>
  ELSE << "[" >> \o EncodeEntries(es, 1) \o << "]" >>

(***************************************************************************)
(* The server: one execution of parseHandler per request                   *)
(***************************************************************************)
\* The requests the server handles, each by its own goroutine.
Reqs == {"r1", "r2"}

Methods == {"POST", "GET"}

\* r.RemoteAddr: each request comes over its own connection.
RemoteAddr == [r \in Reqs |-> IF r = "r1" THEN "10.0.0.1:4000" ELSE "10.0.0.2:4000"]

\* "[] [a] a"
StructuredLine == << "[", "]", " ", "[", "a", "]", " ", "a" >>

\* Request bodies a client sends: empty, blank lines only, one raw line,
\* one structured line, a structured and a raw line around a blank one.
Bodies ==
  { << >>,
    << " ", "\n", "\r", "\n" >>,
    << "a" >>,
    StructuredLine,
    StructuredLine \o << "\r", "\n", "\n", "[", "a", "]" >> }

StatusOK == 200
StatusMethodNotAllowed == 405
StatusInternalServerError == 500

VARIABLES
  pc,            \* where each request's handler stands
  req,           \* r *http.Request: Method, Body, RemoteAddr
  record,        \* the handler's local LogRecord
  logText,       \* the handler's local logText
  parsedData,    \* the handler's local parsedData
  responseBody,  \* the handler's local responseBody
  w,             \* the http.ResponseWriter of each request
  panicking,     \* a panic is unwinding the handler
  arg,           \* the record parameter of the running recordLog call
  delogged,      \* the rows of table delogged, in insertion order
  now,           \* the clock read by time.Now()
  steps,         \* history: processing steps each handler has executed
  execs,         \* history: dbPool.Exec calls made for each request
  logged,        \* history: what each handler has written to the log
  cpc,           \* classification run: "ready" or "parsed"
  cText,         \* classification run: the text to classify
  cParsed        \* classification run: the resulting parsedData

serverVars == << pc, req, record, logText, parsedData, responseBody, w,
                 panicking, arg, delogged, now, steps, execs, logged >>
classifyVars == << cpc, cText, cParsed >>
vars == << serverVars, classifyVars >>

\* LogRecord{...}
LogRecord(ts, addr, reqBody, respBody, code, msg) ==
  [Timestamp |-> ts, RemoteAddr |-> addr, RequestBody |-> reqBody,
   ResponseBody |-> respBody, StatusCode |-> code, ErrorMsg |-> msg]

NoRecord == LogRecord(0, "", << >>, << >>, 0, "")
NoRequest == [Method |-> "", Body |-> << >>, RemoteAddr |-> ""]

\* A ResponseWriter nothing has been written to: no status line, no body.
FreshWriter ==
  [Code |-> 0, Body |-> << >>, ContentType |-> "", AllowOrigin |-> "",
   Delivered |-> FALSE]

\* http.Error(w, msg, code): plain-text headers, the status line, then the
\* message and a newline.  The result of the write is not looked at; sent
\* tells whether it reached the client.
HttpError(wr, msg, code, sent) ==
  [wr EXCEPT !.Code = code, !.Body = << msg, "\n" >>,
             !.ContentType = "text/plain; charset=utf-8",
             !.Delivered = sent]

\* w.Write(body) with no earlier WriteHeader: status 200 is implied.
Write(wr, body, sent) ==
  [wr EXCEPT !.Code = StatusOK, !.Body = body, !.Delivered = sent]

serverInit ==
  /\ pc = [r \in Reqs |-> "idle"]
  /\ req = [r \in Reqs |-> NoRequest]
  /\ record = [r \in Reqs |-> NoRecord]
  /\ logText = [r \in Reqs |-> << >>]
  /\ parsedData = [r \in Reqs |-> << >>]
  /\ responseBody = [r \in Reqs |-> << >>]
  /\ w = [r \in Reqs |-> FreshWriter]
  /\ panicking = [r \in Reqs |-> FALSE]
  /\ arg = [r \in Reqs |-> NoRecord]
  /\ delogged = << >>
  /\ now = 1
  /\ steps = [r \in Reqs |-> << >>]
  /\ execs = [r \in Reqs |-> 0]
  /\ logged = [r \in Reqs |-> {}]

Init ==
  /\ serverInit
  /\ cpc = "off"
  /\ cText = << >>
  /\ cParsed = << >>

\* Accept with record declared at package level: the literal of a new
\* request overwrites the record that every running handler works on.
Accept_SharedRecord(r) ==
  /\ pc[r] = "idle"
  /\ \E m \in Methods, b \in Bodies :
       req' = [req EXCEPT ![r] = [Method |-> m, Body |-> b, RemoteAddr |-> RemoteAddr[r]]]
  /\ record' = [o \in Reqs |-> LogRecord(now, RemoteAddr[r], << >>, << >>, StatusOK, "")]
  /\ now' = now + 1
  /\ pc' = [pc EXCEPT ![r] = "method"]
  /\ logged' = [logged EXCEPT ![r] = @ \cup {"received"}]
  /\ UNCHANGED << logText, parsedData, responseBody, w, panicking, arg,
                  delogged, steps, execs, classifyVars >>

\* net/http calls parseHandler(w, r): the record literal, the defer
\* statement and the first log line.
Accept(r) ==
  /\ pc[r] = "idle"
  /\ \E m \in Methods, b \in Bodies :
       req' = [req EXCEPT ![r] = [Method |-> m, Body |-> b, RemoteAddr |-> RemoteAddr[r]]]
  /\ record' = [record EXCEPT ![r] = LogRecord(now, RemoteAddr[r], << >>, << >>, StatusOK, "")]
  /\ now' = now + 1
  /\ pc' = [pc EXCEPT ![r] = "method"]
  /\ logged' = [logged EXCEPT ![r] = @ \cup {"received"}]
  /\ UNCHANGED << logText, parsedData, responseBody, w, panicking, arg,
                  delogged, steps, execs, classifyVars >>

\* MethodNotAllowed with the defer statement placed after the method
\* check: the early return leaves the handler without calling recordLog.
MethodNotAllowed_NoDefer(r) ==
  /\ pc[r] = "method"
  /\ req[r].Method # "POST"
  /\ \E sent \in BOOLEAN :
       w' = [w EXCEPT ![r] = HttpError(@, "Method not allowed", StatusMethodNotAllowed, sent)]
  /\ record' = [record EXCEPT ![r].StatusCode = StatusMethodNotAllowed,
                              ![r].ErrorMsg = "Method not allowed"]
  /\ logged' = [logged EXCEPT ![r] = @ \cup {"rejected"}]
  /\ steps' = [steps EXCEPT ![r] = Append(@, "method")]
  /\ pc' = [pc EXCEPT ![r] = "done"]
  /\ UNCHANGED << req, logText, parsedData, responseBody, panicking, arg,
                  delogged, now, execs, classifyVars >>

\* MethodNotAllowed without its return statement: the handler goes on to
\* read the body.
MethodNotAllowed_NoReturn(r) ==
  /\ pc[r] = "method"
  /\ req[r].Method # "POST"
  /\ \E sent \in BOOLEAN :
       w' = [w EXCEPT ![r] = HttpError(@, "Method not allowed", StatusMethodNotAllowed, sent)]
  /\ record' = [record EXCEPT ![r].StatusCode = StatusMethodNotAllowed,
                              ![r].ErrorMsg = "Method not allowed",
                              ![r].RequestBody = req[r].Body]
  /\ logText' = [logText EXCEPT ![r] = req[r].Body]
  /\ logged' = [logged EXCEPT ![r] = @ \cup {"rejected", "size"}]
  /\ steps' = [steps EXCEPT ![r] = @ \o << "method", "read" >>]
  /\ pc' = [pc EXCEPT ![r] = "parse"]
  /\ UNCHANGED << req, parsedData, responseBody, panicking, arg,
                  delogged, now, execs, classifyVars >>

\* if r.Method != http.MethodPost { ... return }
MethodNotAllowed(r) ==
  /\ pc[r] = "method"
  /\ req[r].Method # "POST"
  /\ \E sent \in BOOLEAN :
       w' = [w EXCEPT ![r] = HttpError(@, "Method not allowed", StatusMethodNotAllowed, sent)]
  /\ record' = [record EXCEPT ![r].StatusCode = StatusMethodNotAllowed,
                              ![r].ErrorMsg = "Method not allowed"]
  /\ logged' = [logged EXCEPT ![r] = @ \cup {"rejected"}]
  /\ steps' = [steps EXCEPT ![r] = Append(@, "method")]
  /\ pc' = [pc EXCEPT ![r] = "defer"]
  /\ UNCHANGED << req, logText, parsedData, responseBody, panicking, arg,
                  delogged, now, execs, classifyVars >>

\* ReadBody that stores the body in the record after trimming it.
ReadBody_Trimmed(r) ==
  /\ pc[r] = "method"
  /\ req[r].Method = "POST"
  /\ logText' = [logText EXCEPT ![r] = req[r].Body]
  /\ record' = [record EXCEPT ![r].RequestBody = TrimSpace(req[r].Body)]
  /\ logged' = [logged EXCEPT ![r] = @ \cup {"size"}]
  /\ steps' = [steps EXCEPT ![r] = @ \o << "method", "read" >>]
  /\ pc' = [pc EXCEPT ![r] = "parse"]
  /\ UNCHANGED << req, parsedData, responseBody, w, panicking, arg,
                  delogged, now, execs, classifyVars >>

\* body, err := io.ReadAll(r.Body) with err == nil, up to the log line
\* that reports the size.
ReadBody(r) ==
  /\ pc[r] = "method"
  /\ req[r].Method = "POST"
  /\ logText' = [logText EXCEPT ![r] = req[r].Body]
  /\ record' = [record EXCEPT ![r].RequestBody = req[r].Body]
  /\ logged' = [logged EXCEPT ![r] = @ \cup {"size"}]
  /\ steps' = [steps EXCEPT ![r] = @ \o << "method", "read" >>]
  /\ pc' = [pc EXCEPT ![r] = "parse"]
  /\ UNCHANGED << req, parsedData, responseBody, w, panicking, arg,
                  delogged, now, execs, classifyVars >>

\* ReadBodyError that answers 400 Bad Request while the record says 500.
ReadBodyError_BadRequest(r) ==
  /\ pc[r] = "method"
  /\ req[r].Method = "POST"
  /\ \E sent \in BOOLEAN :
       w' = [w EXCEPT ![r] = HttpError(@, "Could not read request body", 400, sent)]
  /\ record' = [record EXCEPT ![r].StatusCode = StatusInternalServerError,
                              ![r].ErrorMsg = "Could not read request body"]
  /\ logged' = [logged EXCEPT ![r] = @ \cup {"readError"}]
  /\ steps' = [steps EXCEPT ![r] = @ \o << "method", "read" >>]
  /\ pc' = [pc EXCEPT ![r] = "defer"]
  /\ UNCHANGED << req, logText, parsedData, responseBody, panicking, arg,
                  delogged, now, execs, classifyVars >>

\* ReadBodyError that stores what was read of the body before the failure.
ReadBodyError_StoresBody(r) ==
  /\ pc[r] = "method"
  /\ req[r].Method = "POST"
  /\ \E sent \in BOOLEAN :
       w' = [w EXCEPT ![r] = HttpError(@, "Could not read request body",
                                       StatusInternalServerError, sent)]
  /\ record' = [record EXCEPT ![r].StatusCode = StatusInternalServerError,
                              ![r].ErrorMsg = "Could not read request body",
                              ![r].RequestBody = req[r].Body]
  /\ logged' = [logged EXCEPT ![r] = @ \cup {"readError"}]
  /\ steps' = [steps EXCEPT ![r] = @ \o << "method", "read" >>]
  /\ pc' = [pc EXCEPT ![r] = "defer"]
  /\ UNCHANGED << req, logText, parsedData, responseBody, panicking, arg,
                  delogged, now, execs, classifyVars >>

\* body, err := io.ReadAll(r.Body) with err != nil { ... return }
ReadBodyError(r) ==
  /\ pc[r] = "method"
  /\ req[r].Method = "POST"
  /\ \E sent \in BOOLEAN :
       w' = [w EXCEPT ![r] = HttpError(@, "Could not read request body",
                                       StatusInternalServerError, sent)]
  /\ record' = [record EXCEPT ![r].StatusCode = StatusInternalServerError,
                              ![r].ErrorMsg = "Could not read request body"]
  /\ logged' = [logged EXCEPT ![r] = @ \cup {"readError"}]
  /\ steps' = [steps EXCEPT ![r] = @ \o << "method", "read" >>]
  /\ pc' = [pc EXCEPT ![r] = "defer"]
  /\ UNCHANGED << req, logText, parsedData, responseBody, panicking, arg,
                  delogged, now, execs, classifyVars >>

\* Classify with parsedData declared at package level: the entries of the
\* other request are still in the slice that this request appends to.
Classify_SharedSlice(r) ==
  /\ pc[r] = "parse"
  /\ parsedData' =
       [parsedData EXCEPT ![r] =
          parsedData[CHOOSE o \in Reqs : o # r] \o ParseLog(logText[r])]
  /\ steps' = [steps EXCEPT ![r] = Append(@, "classify")]
  /\ pc' = [pc EXCEPT ![r] = "marshal"]
  /\ UNCHANGED << req, record, logText, responseBody, w, panicking, arg,
                  delogged, now, execs, logged, classifyVars >>

\* The parsing logic: strings.Split, the regexp and the loop over lines.
Classify(r) ==
  /\ pc[r] = "parse"
  /\ parsedData' = [parsedData EXCEPT ![r] = ParseLog(logText[r])]
  /\ steps' = [steps EXCEPT ![r] = Append(@, "classify")]
  /\ pc' = [pc EXCEPT ![r] = "marshal"]
  /\ UNCHANGED << req, record, logText, responseBody, w, panicking, arg,
                  delogged, now, execs, logged, classifyVars >>

\* responseBody, err := json.Marshal(parsedData) with err == nil, the
\* assignment to record.ResponseBody and the two response headers.
MarshalResponse(r) ==
  /\ pc[r] = "marshal"
  /\ responseBody' = [responseBody EXCEPT ![r] = Marshal(parsedData[r])]
  /\ record' = [record EXCEPT ![r].ResponseBody = Marshal(parsedData[r])]
  /\ w' = [w EXCEPT ![r].ContentType = "application/json",
                    ![r].AllowOrigin = "*"]
  /\ steps' = [steps EXCEPT ![r] = Append(@, "marshal")]
  /\ pc' = [pc EXCEPT ![r] = "write"]
  /\ UNCHANGED << req, logText, parsedData, panicking, arg, delogged, now,
                  execs, logged, classifyVars >>

\* MarshalError without its return statement: the handler goes on to
\* write the response.
MarshalError_NoReturn(r) ==
  /\ pc[r] = "marshal"
  /\ \E sent \in BOOLEAN :
       w' = [w EXCEPT ![r] = HttpError(@, "Error creating JSON response",
                                       StatusInternalServerError, sent)]
  /\ record' = [record EXCEPT ![r].StatusCode = StatusInternalServerError,
                              ![r].ErrorMsg = "Error creating JSON response"]
  /\ logged' = [logged EXCEPT ![r] = @ \cup {"marshalError"}]
  /\ steps' = [steps EXCEPT ![r] = Append(@, "marshal")]
  /\ pc' = [pc EXCEPT ![r] = "write"]
  /\ UNCHANGED << req, logText, parsedData, responseBody, panicking, arg,
                  delogged, now, execs, classifyVars >>

\* responseBody, err := json.Marshal(parsedData) with err != nil { ... return }
MarshalError(r) ==
  /\ pc[r] = "marshal"
  /\ \E sent \in BOOLEAN :
       w' = [w EXCEPT ![r] = HttpError(@, "Error creating JSON response",
                                       StatusInternalServerError, sent)]
  /\ record' = [record EXCEPT ![r].StatusCode = StatusInternalServerError,
                              ![r].ErrorMsg = "Error creating JSON response"]
  /\ logged' = [logged EXCEPT ![r] = @ \cup {"marshalError"}]
  /\ steps' = [steps EXCEPT ![r] = Append(@, "marshal")]
  /\ pc' = [pc EXCEPT ![r] = "defer"]
  /\ UNCHANGED << req, logText, parsedData, responseBody, panicking, arg,
                  delogged, now, execs, classifyVars >>

\* WriteResponse that records a failed write in the audit record.
WriteResponse_RecordsFailure(r) ==
  /\ pc[r] = "write"
  /\ \E sent \in BOOLEAN :
       /\ w' = [w EXCEPT ![r] = Write(@, responseBody[r], sent)]
       /\ logged' = [logged EXCEPT ![r] =
                       @ \cup (IF sent THEN {} ELSE {"writeError"}) \cup {"success"}]
       /\ record' = IF sent THEN record
                    ELSE [record EXCEPT ![r].StatusCode = StatusInternalServerError,
                                        ![r].ErrorMsg = "Error writing JSON response"]
  /\ steps' = [steps EXCEPT ![r] = Append(@, "write")]
  /\ pc' = [pc EXCEPT ![r] = "defer"]
  /\ UNCHANGED << req, logText, parsedData, responseBody, panicking,
                  arg, delogged, now, execs, classifyVars >>

\* _, err = w.Write(responseBody), the log line for err != nil, the final
\* log line, and the return at the end of the function.
WriteResponse(r) ==
  /\ pc[r] = "write"
  /\ \E sent \in BOOLEAN :
       /\ w' = [w EXCEPT ![r] = Write(@, responseBody[r], sent)]
       /\ logged' = [logged EXCEPT ![r] =
                       @ \cup (IF sent THEN {} ELSE {"writeError"}) \cup {"success"}]
  /\ steps' = [steps EXCEPT ![r] = Append(@, "write")]
  /\ pc' = [pc EXCEPT ![r] = "defer"]
  /\ UNCHANGED << req, record, logText, parsedData, responseBody, panicking,
                  arg, delogged, now, execs, classifyVars >>

\* A run-time panic raised while a processing step runs: the function is
\* left at once and its deferred call runs while the panic unwinds.
Panic(r) ==
  /\ pc[r] \in {"parse", "marshal", "write"}
  /\ panicking' = [panicking EXCEPT ![r] = TRUE]
  /\ pc' = [pc EXCEPT ![r] = "defer"]
  /\ UNCHANGED << req, record, logText, parsedData, responseBody, w, arg,
                  delogged, now, steps, execs, logged, classifyVars >>

\* recordLog started with a go statement: the deferred closure does not
\* wait for dbPool.Exec, and parseHandler returns at once.
recordLog_Async(r) ==
  /\ pc[r] = "defer"
  /\ arg' = [arg EXCEPT ![r] = record[r]]
  /\ execs' = [execs EXCEPT ![r] = @ + 1]
  /\ pc' = [pc EXCEPT ![r] = "done"]
  /\ UNCHANGED << req, record, logText, parsedData, responseBody, w,
                  panicking, delogged, now, steps, logged, classifyVars >>

\* recordLog deferred directly, `defer recordLog(record)`: the parameter is
\* evaluated by the defer statement, when the record holds its defaults.
recordLog_Registered(r) ==
  /\ pc[r] = "defer"
  /\ arg' = [arg EXCEPT ![r] =
               LogRecord(record[r].Timestamp, record[r].RemoteAddr,
                         << >>, << >>, StatusOK, "")]
  /\ execs' = [execs EXCEPT ![r] = @ + 1]
  /\ pc' = [pc EXCEPT ![r] = "exec"]
  /\ UNCHANGED << req, record, logText, parsedData, responseBody, w,
                  panicking, delogged, now, steps, logged, classifyVars >>

\* The deferred closure calls recordLog(record): the record as it is now
\* is copied into the parameter, and dbPool.Exec is started.
recordLog(r) ==
  /\ pc[r] = "defer"
  /\ arg' = [arg EXCEPT ![r] = record[r]]
  /\ execs' = [execs EXCEPT ![r] = @ + 1]
  /\ pc' = [pc EXCEPT ![r] = "exec"]
  /\ UNCHANGED << req, record, logText, parsedData, responseBody, w,
                  panicking, delogged, now, steps, logged, classifyVars >>

\* ExecDone that calls recordLog again after a failed insert.
ExecDone_Retry(r) ==
  /\ pc[r] = "exec"
  /\ \E outcome \in {"ok", "error", "timeout"} :
       IF outcome = "ok"
         THEN /\ delogged' = Append(delogged, arg[r])
              /\ pc' = [pc EXCEPT ![r] = "done"]
              /\ UNCHANGED logged
         ELSE /\ logged' = [logged EXCEPT ![r] = @ \cup {"insertError"}]
              /\ pc' = [pc EXCEPT ![r] = IF execs[r] < 2 THEN "defer" ELSE "done"]
              /\ UNCHANGED delogged
  /\ UNCHANGED << req, record, logText, parsedData, responseBody, w,
                  panicking, arg, now, steps, execs, classifyVars >>

\* dbPool.Exec returns: the row is in the table, or err != nil (an error
\* of the database, or the 5 second deadline) and the failure is logged.
\* recordLog returns, the deferred closure returns, parseHandler returns.
ExecDone(r) ==
  /\ pc[r] = "exec"
  /\ \E outcome \in {"ok", "error", "timeout"} :
       IF outcome = "ok"
         THEN /\ delogged' = Append(delogged, arg[r])
              /\ UNCHANGED logged
         ELSE /\ logged' = [logged EXCEPT ![r] = @ \cup {"insertError"}]
              /\ UNCHANGED delogged
  /\ pc' = [pc EXCEPT ![r] = "done"]
  /\ UNCHANGED << req, record, logText, parsedData, responseBody, w,
                  panicking, arg, now, steps, execs, classifyVars >>

parseHandler(r) ==
  \/ Accept(r)
  \/ MethodNotAllowed(r)
  \/ ReadBody(r)
  \/ ReadBodyError(r)
  \/ Classify(r)
  \/ MarshalResponse(r)
  \/ MarshalError(r)
  \/ WriteResponse(r)
  \/ Panic(r)
  \/ recordLog(r)
  \/ ExecDone(r)

Next == \E r \in Reqs : parseHandler(r)

Spec == Init /\ [][Next]_vars

(***************************************************************************)
(* The classification loop on its own, over a larger set of texts          *)
(***************************************************************************)
MaxLen == 4
MaxCap == 1
MaxGap == 1
MaxMsg == 4
MaxLines == 4

\* All texts over S of length lo..hi.
Strs(S, lo, hi) == UNION {[1..n -> S] : n \in lo..hi}

\* Characters tried inside the two bracket groups, between the groups,
\* and in the remainder of a line.
CapChars == {"a", "]"}
GapChars == {" ", VT}
MsgChars == {"a", "[", "]", " "}

\* Lines shaped like a bracketed log line: two bracket groups and a
\* remainder, with gaps (possibly none) after each group.
FormLine(a, g1, b, g2, c) ==
  << "[" >> \o a \o << "]" >> \o g1 \o << "[" >> \o b \o << "]" >> \o g2 \o c

\* Every combination of groups and gaps with a short remainder, and every
\* remainder after single-space gaps.
FormLines ==
  { FormLine(a, g1, b, g2, c) :
      a \in Strs(CapChars, 0, MaxCap), b \in Strs(CapChars, 0, MaxCap),
      g1 \in Strs(GapChars, 0, MaxGap), g2 \in Strs(GapChars, 0, MaxGap),
      c \in Strs(MsgChars, 0, 1) }
  \cup
  { FormLine(a, << " " >>, b, << " " >>, c) :
      a \in Strs(CapChars, 0, 1), b \in Strs(CapChars, 0, 1),
      c \in Strs(MsgChars, 0, MaxMsg) }

\* Lines that multi-line texts are assembled from.
SampleLines ==
  { << >>, << " " >>, << "a" >>, << "a", "\r" >>, << "[", "a", "]" >>,
    << "[", "]", " ", "[", "]", " ", "a" >> }

RECURSIVE Join(_, _)
\* strings.Join(ls, "\n") from index i on.
Join(ls, i) ==
  IF i > Len(ls) THEN << >>
  ELSE ls[i] \o (IF i < Len(ls) THEN << "\n" >> ELSE << >>) \o Join(ls, i + 1)

JoinedTexts == { Join(ls, 1) : ls \in Strs(SampleLines, 1, MaxLines) }

RECURSIVE JoinCRLF(_, _)
\* The lines ls from index i on, each ended by a carriage return and a
\* line feed.
JoinCRLF(ls, i) ==
  IF i > Len(ls) THEN << >>
  ELSE ls[i] \o << "\r", "\n" >> \o JoinCRLF(ls, i + 1)

\* Bodies sent with \r\n line endings.
CrlfTexts ==
  { JoinCRLF(ls, 1) : ls \in Strs(SampleLines \ {<< "a", "\r" >>}, 1, MaxLines) }

ClassifyInputs ==
  Strs(Chars, 0, MaxLen) \cup FormLines \cup JoinedTexts \cup CrlfTexts

InitClassify ==
  /\ serverInit
  /\ cpc = "ready"
  /\ cText \in ClassifyInputs
  /\ cParsed = << >>

\* The parsing logic of parseHandler applied to cText.
ClassifyText ==
  /\ cpc = "ready"
  /\ cParsed' = ParseLog(cText)
  /\ cpc' = "parsed"
  /\ UNCHANGED << cText, serverVars >>

NextClassify == ClassifyText

SpecClassify == InitClassify /\ [][NextClassify]_vars

(***************************************************************************)
(* Properties of the classification loop (checked under SpecClassify)      *)
(***************************************************************************)
\* The lines of a text that are not blank, each without its surrounding
\* white space, in the order of the text; stated on character positions.
Visible(t) == {i \in 1..Len(t) : ~IsSpace(t[i])}
LineNo(t, i) == Cardinality({j \in 1..i : t[j] = "\n"})
LineNos(t) == {LineNo(t, i) : i \in Visible(t)}
NthLineNo(t, k) ==
  CHOOSE n \in LineNos(t) : Cardinality({m \in LineNos(t) : m < n}) = k - 1
LineText(t, n) ==
  LET P == {i \in Visible(t) : LineNo(t, i) = n}
  IN  SubSeq(t, Min(P), Max(P))
VisibleLines(t) ==
  [k \in 1..Cardinality(LineNos(t)) |-> LineText(t, NthLineNo(t, k))]

\* Reading a line as `[A] [B] C` with A and B free of `]`: each group is
\* closed by the first `]` after its `[`.
FirstClose(s, p) ==
  LET cl == {i \in p..Len(s) : s[i] = "]"}
  IN  IF cl = {} THEN 0 ELSE Min(cl)
GapEnd(s, p) ==
  LET stop == {i \in p..Len(s) : ~IsReSpace(s[i])}
  IN  IF stop = {} THEN Len(s) + 1 ELSE Min(stop)
FormA(s) == SubSeq(s, 2, FirstClose(s, 2) - 1)
FormOpenB(s) == GapEnd(s, FirstClose(s, 2) + 1)
FormB(s) == SubSeq(s, FormOpenB(s) + 1, FirstClose(s, FormOpenB(s) + 1) - 1)
FormStartC(s) == GapEnd(s, FirstClose(s, FormOpenB(s) + 1) + 1)
FormC(s) == SubSeq(s, FormStartC(s), Len(s))
HasForm(s) ==
  /\ Len(s) > 0
  /\ s[1] = "["
  /\ FirstClose(s, 2) # 0
  /\ FormOpenB(s) > FirstClose(s, 2) + 1
  /\ FormOpenB(s) <= Len(s)
  /\ s[FormOpenB(s)] = "["
  /\ FirstClose(s, FormOpenB(s) + 1) # 0
  /\ FormStartC(s) > FirstClose(s, FormOpenB(s) + 1) + 1
  /\ FormStartC(s) <= Len(s)

\* C3: every non-blank trimmed line of the form `[A] [B] C` (A and B
\* without `]`, at least one white-space character of the pattern after
\* each group) yields the entry Timestamp = A, Level = B, Message = C with
\* Raw empty, also when B is empty.
C3_StructuredEntry ==
  cpc = "parsed" =>
    LET ls == VisibleLines(cText)
    IN  \A i \in 1..Len(ls) :
          HasForm(ls[i]) =>
            /\ i <= Len(cParsed)
            /\ cParsed[i] = LogEntry(FormA(ls[i]), FormB(ls[i]), FormC(ls[i]), << >>)

\* A line `[] [] C` has been classified as structured, with empty
\* Timestamp and Level.
C3_Witness ==
  /\ cpc = "parsed"
  /\ Len(cParsed) = 1
  /\ HasForm(TrimSpace(cText))
  /\ FormB(TrimSpace(cText)) = << >>
  /\ FormA(TrimSpace(cText)) # << >>
  /\ cParsed[1].Level = << >>
  /\ cParsed[1].Timestamp # << >>
  /\ cParsed[1].Raw = << >>

\* Some way exists to read s, a line without newline, as `[`, A, `]`, gap,
\* `[`, B, `]`, gap, C with non-empty gaps of pattern white space (one
\* white-space character after the second group is enough: C may be empty
\* or start with white space).
Decomposable(s) ==
  /\ Len(s) > 0
  /\ s[1] = "["
  /\ \A i \in 1..Len(s) : s[i] # "\n"
  /\ \E k1 \in {i \in 2..Len(s) : s[i] = "]"} :
       \E o2 \in {i \in (k1 + 2)..Len(s) : s[i] = "["} :
         /\ \A i \in (k1 + 1)..(o2 - 1) : IsReSpace(s[i])
         /\ \E k2 \in {i \in (o2 + 1)..(Len(s) - 1) : s[i] = "]"} :
              IsReSpace(s[k2 + 1])

Count(s, c) == Cardinality({i \in 1..Len(s) : s[i] = c})

\* No `]` of s is followed by white space and then `[`.
NoSeparatedGroups(s) ==
  \A k \in 1..Len(s) :
    s[k] = "]" => ~(GapEnd(s, k + 1) > k + 1 /\ GapEnd(s, k + 1) <= Len(s)
                    /\ s[GapEnd(s, k + 1)] = "[")

\* Two bracket groups and nothing after the second.
TwoGroupsOnly(s) ==
  /\ Len(s) > 0
  /\ s[1] = "["
  /\ FirstClose(s, 2) # 0
  /\ FormOpenB(s) <= Len(s)
  /\ s[FormOpenB(s)] = "["
  /\ FirstClose(s, FormOpenB(s) + 1) = Len(s)

RawEntry(s) == LogEntry(<< >>, << >>, << >>, s)

\* C4: a non-blank trimmed line that does not match the full-line pattern
\* (in particular: no brackets, one bracket group, two groups with nothing
\* after them, groups not separated by white space) yields a raw entry
\* with Raw = the trimmed line and no other field; an entry with Raw set
\* never carries a structured field.
C4_RawEntry ==
  cpc = "parsed" =>
    LET ls == VisibleLines(cText)
    IN
    /\ Len(cParsed) = Len(ls)
    /\ \A i \in 1..Len(cParsed) :
         LET s == ls[i]
         IN  /\ ( \/ ~Decomposable(s)
                  \/ Count(s, "[") = 0 /\ Count(s, "]") = 0
                  \/ Count(s, "[") <= 1
                  \/ Count(s, "]") <= 1
                  \/ TwoGroupsOnly(s)
                  \/ NoSeparatedGroups(s) )
                  => cParsed[i] = RawEntry(s)
             /\ cParsed[i].Raw # << >> => cParsed[i] = RawEntry(s)

\* A line with two adjacent bracket groups and a remainder, such as
\* `[a][a]a`, has been classified as raw.
C4_Witness ==
  /\ cpc = "parsed"
  /\ Len(cParsed) = 1
  /\ LET s == TrimSpace(cText)
     IN  /\ Len(s) >= 5
         /\ s[1] = "["
         /\ FirstClose(s, 2) # 0
         /\ FirstClose(s, 2) < Len(s)
         /\ s[FirstClose(s, 2) + 1] = "["
         /\ Count(s, "]") = 2
         /\ s[Len(s)] = "a"
         /\ cParsed[1] = RawEntry(s)

\* C5: the entries are, in order, the classifications of the lines of the
\* body that are not blank after trimming: as many entries as such lines,
\* the i-th entry for the i-th such line, none for blank lines.
C5_OneEntryPerLine ==
  cpc = "parsed" =>
    LET ls == VisibleLines(cText)
    IN
    /\ Len(cParsed) = Len(ls)
    /\ \A i \in 1..Len(cParsed) :
         LET s == ls[i]
             e == cParsed[i]
         IN  /\ e = ClassifyLine(s)
             /\ e.Raw # << >> => e.Raw = s
             /\ e.Raw = << >> => Decomposable(s) /\ e.Message # << >>

\* A text of four segments, two of them blank, has given a structured
\* entry followed by a raw one.
C5_Witness ==
  /\ cpc = "parsed"
  /\ Count(cText, "\n") = 3
  /\ Len(cParsed) = 2
  /\ cParsed[1].Raw = << >>
  /\ cParsed[2].Raw # << >>
  /\ Len(VisibleLines(cText)) = 2

\* C9: every entry is either structured (Raw empty, fields taken from the
\* match) or raw (only Raw set); none has Raw together with a structured
\* field, none has all four fields empty.
C9_TwoShapes ==
  cpc = "parsed" =>
    \A i \in 1..Len(cParsed) :
      LET e == cParsed[i]
          structured == e.Timestamp # << >> \/ e.Level # << >> \/ e.Message # << >>
      IN  /\ ~(e.Raw # << >> /\ structured)
          /\ e.Raw # << >> \/ structured
          /\ e.Raw = << >> => e.Message # << >>

\* A structured entry whose Timestamp and Level are both empty stands
\* next to a raw entry.
C9_Witness ==
  /\ cpc = "parsed"
  /\ \E i, j \in 1..Len(cParsed) :
       /\ cParsed[i].Raw = << >>
       /\ cParsed[i].Timestamp = << >>
       /\ cParsed[i].Level = << >>
       /\ cParsed[i].Message # << >>
       /\ cParsed[j].Raw # << >>

(***************************************************************************)
(* Properties of the handler (checked under Spec)                          *)
(***************************************************************************)
Returned(r) == pc[r] = "done"
ProcessingSteps == << "method", "read", "classify", "marshal", "write" >>
IsPrefix(s, t) == Len(s) <= Len(t) /\ s = SubSeq(t, 1, Len(s))

\* C1: every execution of parseHandler calls recordLog exactly once,
\* whatever the exit path; the call is made when the processing steps are
\* over, and no processing step runs after it.
C1_RecordLogOnce ==
  /\ [](\A r \in Reqs :
          /\ execs[r] = (IF pc[r] \in {"exec", "done"} THEN 1 ELSE 0)
          /\ Returned(r) => execs[r] = 1)
  /\ [][\A r \in Reqs :
          execs[r] >= 1 =>
            /\ steps'[r] = steps[r]
            /\ record'[r] = record[r]
            /\ w'[r] = w[r]
            /\ execs'[r] = execs[r]]_vars

\* One handler has returned through the 405 exit and another through a
\* panic, each with its one recordLog call.
C1_Witness ==
  \E r1, r2 \in Reqs :
    /\ Returned(r1) /\ record[r1].StatusCode = StatusMethodNotAllowed
    /\ Returned(r2) /\ panicking[r2]
    /\ execs[r1] = 1 /\ execs[r2] = 1

\* C2: a failed or timed-out insert is logged and nothing else: the
\* response is as it was, the handler returns normally, recordLog is not
\* called again and the row never reaches the table.
C2_InsertFailureDropped ==
  /\ [](Len(delogged) =
          Cardinality({r \in Reqs : Returned(r) /\ "insertError" \notin logged[r]}))
  /\ [][\A r \in Reqs :
          /\ pc[r] = "exec" /\ "insertError" \in logged'[r] =>
               /\ w'[r] = w[r]
               /\ panicking'[r] = panicking[r]
               /\ execs'[r] = 1
               /\ delogged' = delogged
               /\ Returned(r)'
          /\ Returned(r) =>
               /\ Returned(r)'
               /\ execs'[r] = execs[r]
               /\ w'[r] = w[r]]_vars

\* A handler whose response reached the client has returned after its
\* insert failed, while the other request's row is in the table.
C2_Witness ==
  \E r \in Reqs :
    /\ Returned(r)
    /\ "insertError" \in logged[r]
    /\ w[r].Code = StatusOK /\ w[r].Delivered
    /\ Len(w[r].Body) > 4
    /\ Len(delogged) = 1

\* The body has no line that is non-empty after trimming.
BlankBody(b) == \A i \in 1..Len(b) : IsSpace(b[i])

\* C6: a POST with an empty or all-blank body is answered with status 200
\* and the body `[]`, and its audit record has status_code 200 and an
\* empty error_msg.
C6_EmptyBodyEmptyArray ==
  \A r \in Reqs :
    ( /\ Returned(r)
      /\ req[r].Method = "POST"
      /\ BlankBody(req[r].Body)
      /\ steps[r] = ProcessingSteps ) =>
        /\ w[r].Code = StatusOK
        /\ w[r].Body = << "[", "]" >>
        /\ arg[r].StatusCode = StatusOK
        /\ arg[r].ErrorMsg = ""

\* C7: a request that is not a POST is answered with 405 before the body
\* is read and before anything is classified; its audit record has
\* status_code 405, a non-empty error_msg, and empty request and response
\* bodies.
C7_MethodNotAllowed ==
  \A r \in Reqs :
    (pc[r] \notin {"idle", "method"} /\ req[r].Method # "POST") =>
      /\ steps[r] = << "method" >>
      /\ w[r].Code = StatusMethodNotAllowed
      /\ logText[r] = << >>
      /\ parsedData[r] = << >>
      /\ record[r].StatusCode = StatusMethodNotAllowed
      /\ record[r].ErrorMsg # ""
      /\ record[r].RequestBody = << >>
      /\ record[r].ResponseBody = << >>
      /\ pc[r] \in {"exec", "done"} => arg[r] = record[r]

\* A GET that carried a body has been answered and its row is in the
\* table.
C7_Witness ==
  \E r \in Reqs :
    /\ Returned(r)
    /\ req[r].Method = "GET"
    /\ req[r].Body # << >>
    /\ \E i \in 1..Len(delogged) :
         delogged[i] = arg[r] /\ delogged[i].StatusCode = StatusMethodNotAllowed

\* C8: the processing steps run in the order method, read, classify,
\* marshal, write; the first failing step sets status_code and error_msg
\* (405 for the method, 500 for the read and for the serialization) and
\* the handler returns at once: no later step runs and the record is not
\* set a second time.
C8_FirstFailureReturns ==
  /\ [](\A r \in Reqs :
          /\ IsPrefix(steps[r], ProcessingSteps)
          /\ record[r].StatusCode \in {0, StatusOK, StatusMethodNotAllowed,
                                       StatusInternalServerError}
          /\ record[r].StatusCode = StatusMethodNotAllowed <=>
               (pc[r] \in {"defer", "exec", "done"} /\ req[r].Method # "POST")
          /\ record[r].StatusCode = StatusMethodNotAllowed =>
               steps[r] = << "method" >> /\ record[r].ErrorMsg = "Method not allowed"
          /\ record[r].StatusCode = StatusInternalServerError =>
               /\ pc[r] \in {"defer", "exec", "done"}
               /\ \/ /\ steps[r] = << "method", "read" >>
                     /\ record[r].ErrorMsg = "Could not read request body"
                  \/ /\ steps[r] = << "method", "read", "classify", "marshal" >>
                     /\ record[r].ErrorMsg = "Error creating JSON response"
               /\ w[r].Code = StatusInternalServerError
          /\ record[r].StatusCode \in {0, StatusOK} => record[r].ErrorMsg = "")
  /\ [][\A r \in Reqs :
          record[r].StatusCode \in {StatusMethodNotAllowed, StatusInternalServerError} =>
            /\ steps'[r] = steps[r]
            /\ record'[r] = record[r]
            /\ w'[r] = w[r]]_vars

\* One handler has returned after a failed body read and another after a
\* failed serialization.
C8_Witness ==
  \E r1, r2 \in Reqs :
    /\ Returned(r1) /\ Returned(r2)
    /\ record[r1].ErrorMsg = "Could not read request body"
    /\ record[r2].ErrorMsg = "Error creating JSON response"
    /\ Len(parsedData[r2]) = 2

\* C10: when writing the serialized response fails, the failure is only
\* logged: the audit record keeps status_code 200, an empty error_msg and
\* the serialized response_body, and recordLog is still called with it.
C10_WriteFailureLogged ==
  \A r \in Reqs :
    "writeError" \in logged[r] =>
      /\ w[r].Delivered = FALSE
      /\ record[r].StatusCode = StatusOK
      /\ record[r].ErrorMsg = ""
      /\ record[r].ResponseBody = Marshal(parsedData[r])
      /\ record[r].ResponseBody = responseBody[r]
      /\ ~panicking[r]
      /\ pc[r] \in {"defer", "exec", "done"}
      /\ pc[r] \in {"exec", "done"} => arg[r] = record[r] /\ execs[r] = 1

\* A handler whose write failed has returned and its row, with status 200
\* and the serialized entries, is in the table.
C10_Witness ==
  \E r \in Reqs :
    /\ Returned(r)
    /\ "writeError" \in logged[r]
    /\ \E i \in 1..Len(delogged) :
         /\ delogged[i] = arg[r]
         /\ delogged[i].StatusCode = StatusOK
         /\ Len(delogged[i].ResponseBody) > 4

(***************************************************************************)
(* The insert and the return of the handler                                *)
(***************************************************************************)
\* The row of request r, as handed to recordLog, is in the table.
RowStored(r) == \E i \in 1..Len(delogged) : delogged[i] = arg[r]

\* dbPool.Exec has returned for request r, with the row or with an error.
InsertSettled(r) == execs[r] >= 1 /\ (RowStored(r) \/ "insertError" \in logged[r])

\* dbPool.Exec has been called for request r and has not returned.
InsertInFlight(r) == execs[r] >= 1 /\ ~InsertSettled(r)

\* C11 as stated: the insert does not gate the handling of its request, so
\* a handler is never held back by an insert in flight: while the insert
\* runs, parseHandler has returned.
C11_ReturnDoesNotWait ==
  \A r \in Reqs : InsertInFlight(r) => Returned(r)

\* C11 as amended: recordLog runs synchronously in the deferred call.  The
\* response was handed to the ResponseWriter before the insert starts and
\* is not changed by it, and parseHandler returns only when the insert has
\* succeeded, failed or timed out.
C11_ReturnWaitsForInsert ==
  /\ [](\A r \in Reqs :
          /\ Returned(r) => InsertSettled(r)
          /\ InsertInFlight(r) => pc[r] = "exec" /\ ~Returned(r)
          /\ pc[r] = "exec" => InsertInFlight(r))
  /\ [][\A r \in Reqs : InsertInFlight(r) => w'[r] = w[r]]_vars

\* One handler, its response written, is held in dbPool.Exec while the
\* other has returned with its row stored.
C11_Witness ==
  \E r1, r2 \in Reqs :
    /\ InsertInFlight(r1) /\ ~Returned(r1)
    /\ w[r1].Code = StatusOK /\ w[r1].Delivered
    /\ Returned(r2) /\ RowStored(r2)

(***************************************************************************)
(* Determinism of the classification across requests                       *)
(***************************************************************************)
Classified(r) == Len(steps[r]) >= 3
Marshalled(r) == Len(steps[r]) >= 4 /\ "marshalError" \notin logged[r]

Decomps(s) ==
  IF Len(s) = 0 \/ s[1] # "[" \/ (\E i \in 1..Len(s) : s[i] = "\n") THEN {}
  ELSE { d \in {i \in 2..Len(s) : s[i] = "]"} \X {i \in 2..Len(s) : s[i] = "]"} :
           LET o2 == GapEnd(s, d[1] + 1)
           IN  /\ o2 > d[1] + 1
               /\ o2 <= Len(s)
               /\ s[o2] = "["
               /\ d[2] > o2
               /\ GapEnd(s, d[2] + 1) > d[2] + 1 }

\* The decomposition with the shortest first group and, for that first
\* group, the shortest second group.
ShortestDecomp(s) ==
  LET k1 == Min({d[1] : d \in Decomps(s)})
      k2 == Min({d[2] : d \in {e \in Decomps(s) : e[1] = k1}})
  IN  << k1, k2 >>

\* C13: when a line can be decomposed in more than one way, the entry has
\* the shortest A for which the rest still matches, then the shortest B,
\* and C is the whole remainder after the white space that follows the
\* second group, further brackets included.
C13_ShortestGroups ==
  cpc = "parsed" =>
    LET ls == VisibleLines(cText)
    IN  \A i \in 1..Len(ls) :
          Decomps(ls[i]) # {} =>
            LET s == ls[i]
                d == ShortestDecomp(s)
                o2 == GapEnd(s, d[1] + 1)
            IN  /\ i <= Len(cParsed)
                /\ cParsed[i].Timestamp = SubSeq(s, 2, d[1] - 1)
                /\ cParsed[i].Level = SubSeq(s, o2 + 1, d[2] - 1)
                /\ cParsed[i].Message = SubSeq(s, GapEnd(s, d[2] + 1), Len(s))
                /\ cParsed[i].Raw = << >>

\* A line with three bracket groups, which can be cut after the first or
\* after the second group, has been classified: Timestamp is the first
\* group and Message starts with the third.
C13_Witness ==
  /\ cpc = "parsed"
  /\ Len(cParsed) = 1
  /\ LET s == TrimSpace(cText)
     IN  /\ Cardinality({d[1] : d \in Decomps(s)}) >= 2
         /\ cParsed[1].Timestamp = SubSeq(s, 2, FirstClose(s, 2) - 1)
         /\ Len(cParsed[1].Message) >= 3
         /\ cParsed[1].Message[1] = "["
         /\ Count(cParsed[1].Message, "]") >= 1

(***************************************************************************)
(* The record handed to recordLog                                          *)
(***************************************************************************)
\* recordLog has been called for request r.
HandedOver(r) == pc[r] \in {"exec", "done"}

\* What the handler of r has decided by now, read off the request and the
\* log: the status, the message, and the two bodies.
ExpectedStatus(r) ==
  IF "rejected" \in logged[r] THEN StatusMethodNotAllowed
  ELSE IF "readError" \in logged[r] \/ "marshalError" \in logged[r]
         THEN StatusInternalServerError
         ELSE StatusOK
ExpectedErrorMsg(r) ==
  IF "rejected" \in logged[r] THEN "Method not allowed"
  ELSE IF "readError" \in logged[r] THEN "Could not read request body"
  ELSE IF "marshalError" \in logged[r] THEN "Error creating JSON response"
  ELSE ""
ExpectedRequestBody(r) == IF "size" \in logged[r] THEN req[r].Body ELSE << >>
ExpectedResponseBody(r) == IF Marshalled(r) THEN responseBody[r] ELSE << >>

\* C14: recordLog receives the record as it stands when parseHandler
\* returns, with every change to status_code, error_msg, request_body and
\* response_body made after the defer statement, and the record is not
\* changed once it has been handed over.
C14_FinalRecordHandedOver ==
  /\ [](\A r \in Reqs :
          HandedOver(r) =>
            /\ arg[r] = record[r]
            /\ arg[r].StatusCode = ExpectedStatus(r)
            /\ arg[r].ErrorMsg = ExpectedErrorMsg(r)
            /\ arg[r].RequestBody = ExpectedRequestBody(r)
            /\ arg[r].ResponseBody = ExpectedResponseBody(r)
            /\ arg[r].RemoteAddr = req[r].RemoteAddr
            /\ RowStored(r) => "insertError" \notin logged[r])
  /\ [][\A r \in Reqs :
          HandedOver(r) => arg'[r] = arg[r] /\ record'[r] = record[r]]_vars

\* A handler that read a body and then failed to serialize has returned;
\* the stored row has status 500, the message and the request body, none
\* of which the record had when the defer statement ran.
C14_Witness ==
  \E r \in Reqs :
    /\ Returned(r)
    /\ RowStored(r)
    /\ arg[r].StatusCode = StatusInternalServerError
    /\ arg[r].ErrorMsg = "Error creating JSON response"
    /\ arg[r].RequestBody # << >>

(***************************************************************************)
(* The bodies stored on the success path                                   *)
(***************************************************************************)
\* The handler of r went through all five processing steps.
SuccessPath(r) == steps[r] = ProcessingSteps

\* C15: on the success path the response_body of the audit record is
\* exactly the byte sequence passed to the client write, and request_body
\* is exactly the full body text that was read and classified.
C15_BodiesVerbatim ==
  \A r \in Reqs :
    SuccessPath(r) =>
      /\ record[r].ResponseBody = w[r].Body
      /\ record[r].RequestBody = req[r].Body
      /\ record[r].RequestBody = logText[r]
      /\ parsedData[r] = ParseLog(record[r].RequestBody)
      /\ record[r].StatusCode = StatusOK
      /\ HandedOver(r) =>
           arg[r].ResponseBody = w[r].Body /\ arg[r].RequestBody = req[r].Body

\* A request whose body holds two non-blank lines, with a carriage return
\* and a blank line between them, was answered and its row, with both
\* bodies, is stored.
C15_Witness ==
  \E r \in Reqs :
    /\ Returned(r)
    /\ SuccessPath(r)
    /\ w[r].Delivered
    /\ RowStored(r)
    /\ Len(parsedData[r]) = 2
    /\ Count(arg[r].RequestBody, "\n") = 2
    /\ Len(arg[r].ResponseBody) > 4

(***************************************************************************)
(* Concurrent requests                                                     *)
(***************************************************************************)
\* rec holds values of request r only.
OwnRecord(rec, r) ==
  /\ rec.RemoteAddr = req[r].RemoteAddr
  /\ rec.RequestBody = ExpectedRequestBody(r)
  /\ rec.ResponseBody = ExpectedResponseBody(r)
  /\ rec.ResponseBody \in {<< >>, Marshal(ParseLog(req[r].Body))}
  /\ rec.StatusCode = ExpectedStatus(r)
  /\ rec.ErrorMsg = ExpectedErrorMsg(r)

\* The state of request o that its handler and the client see.
OwnState(o) ==
  << pc[o], req[o], record[o], logText[o], parsedData[o], responseBody[o],
     w[o], panicking[o], arg[o], steps[o], execs[o], logged[o] >>

RECURSIVE SumExecs(_)
SumExecs(S) ==
  IF S = {} THEN 0
  ELSE LET r == CHOOSE x \in S : TRUE IN execs[r] + SumExecs(S \ {r})

\* C16: under any interleaving of concurrent requests, each record holds
\* the remote address, bodies, status and message of its own request only,
\* every stored row is the record of one request, a step of one request
\* (its errors included) changes nothing in the record or response of
\* another, and there are as many insert attempts as requests handled.
C16_RequestsIsolated ==
  /\ [](/\ \A r \in Reqs : pc[r] # "idle" => OwnRecord(record[r], r)
        /\ \A r \in Reqs : HandedOver(r) => OwnRecord(arg[r], r)
        /\ \A i \in 1..Len(delogged) :
             \E r \in Reqs : /\ Returned(r)
                             /\ delogged[i] = arg[r]
                             /\ \A j \in 1..Len(delogged) :
                                  delogged[j] = arg[r] => j = i
        /\ SumExecs(Reqs) = Cardinality({r \in Reqs : HandedOver(r)})
        /\ (\A r \in Reqs : Returned(r)) => SumExecs(Reqs) = Cardinality(Reqs))
  /\ [][\E r \in Reqs :
          \A o \in Reqs \ {r} : << OwnState(o) >>' = << OwnState(o) >>]_vars

\* Two requests overlapped: the one that arrived first failed to read its
\* body, the one that arrived second was answered with 200 and stored its
\* row first; both rows are in the table.
C16_Witness ==
  \E r1, r2 \in Reqs :
    /\ Returned(r1) /\ Returned(r2)
    /\ Len(delogged) = 2
    /\ delogged[1] = arg[r2] /\ delogged[2] = arg[r1]
    /\ arg[r1].Timestamp < arg[r2].Timestamp
    /\ arg[r1].StatusCode = StatusInternalServerError
    /\ arg[r2].StatusCode = StatusOK
    /\ w[r2].Code = StatusOK /\ w[r2].Body # << >>
    /\ arg[r2].RequestBody # << >>

(***************************************************************************)
(* Line endings (checked under SpecClassify)                               *)
(***************************************************************************)
\* Every carriage return of t is the first half of a \r\n line ending.
CRLFOnly(t) ==
  \A i \in 1..Len(t) : t[i] = "\r" => i < Len(t) /\ t[i + 1] = "\n"

\* t with \n in place of every \r\n.
DropCR(t) == SelectSeq(t, LAMBDA c : c # "\r")

NoCR(s) == \A i \in 1..Len(s) : s[i] # "\r"

\* C17: a text whose lines end in \r\n is classified into the same entry
\* sequence as the same text with \n line endings, and no field of any
\* entry holds a carriage return.
C17_CRLFSameAsLF ==
  (cpc = "parsed" /\ CRLFOnly(cText)) =>
    /\ cParsed = ParseLog(DropCR(cText))
    /\ \A i \in 1..Len(cParsed) :
         /\ NoCR(cParsed[i].Raw) /\ NoCR(cParsed[i].Message)
         /\ NoCR(cParsed[i].Timestamp) /\ NoCR(cParsed[i].Level)

\* A classified text of at least two lines, all ended by \r\n, that gave
\* one structured and one raw entry.
C17_Witness ==
  /\ cpc = "parsed"
  /\ CRLFOnly(cText)
  /\ Count(cText, "\r") >= 2
  /\ Count(cText, "\r") = Count(cText, "\n")
  /\ \E i, j \in 1..Len(cParsed) :
       /\ cParsed[i].Raw = << >> /\ cParsed[i].Message # << >>
       /\ cParsed[j].Raw # << >>

(***************************************************************************)
(* The stored status and the status of the response                        *)
(***************************************************************************)
\* The handler of r is past its processing steps.
Exited(r) == pc[r] \in {"defer", "exec", "done"}

ReadSucceeded(r) == "size" \in logged[r]

\* C19: in every record handed to recordLog, error_msg is non-empty
\* exactly when status_code is not 200, response_body is non-empty only
\* when status_code is 200, and request_body is non-empty only when the
\* body read succeeded: it is empty on the 405 path and on the
\* body-read-failure path.
C19_RecordConsistent ==
  \A r \in Reqs :
    HandedOver(r) =>
      /\ (arg[r].ErrorMsg # "") <=> (arg[r].StatusCode # StatusOK)
      /\ arg[r].ResponseBody # << >> => arg[r].StatusCode = StatusOK
      /\ arg[r].RequestBody # << >> => ReadSucceeded(r)
      /\ ("rejected" \in logged[r] \/ "readError" \in logged[r]) =>
           ~ReadSucceeded(r) /\ arg[r].RequestBody = << >>

\* Handed over: the record of a request with a non-empty body whose read
\* failed, and the record of a request that was read and failed to
\* serialize, which keeps its request body and has no response body.
C19_Witness ==
  \E r1, r2 \in Reqs :
    /\ HandedOver(r1) /\ HandedOver(r2)
    /\ "readError" \in logged[r1]
    /\ req[r1].Body # << >>
    /\ arg[r1].RequestBody = << >>
    /\ arg[r1].ErrorMsg # ""
    /\ "marshalError" \in logged[r2]
    /\ arg[r2].StatusCode = StatusInternalServerError
    /\ arg[r2].RequestBody # << >>
    /\ arg[r2].ResponseBody = << >>

====
